---- MODULE Spec2Model ----
(***************************************************************************)
(* Model of tfmux's server core (src/src/server.c): the circular log       *)
(* buffer, the process records and their lifecycle, the process directory  *)
(* of the server and the signal-driven shutdown.                           *)
(***************************************************************************)
EXTENDS Integers, Sequences, FiniteSets, TLC

\* ------------------------------------------------------------------------
\* Bounds of the circular-buffer model
\* ------------------------------------------------------------------------
\* largest capacity handed to circular_new
MaxCap == 3
\* longest chunk handed to one circular_append
MaxLen == 4
\* largest number of bytes appended to one buffer over its life
MaxTotal == 5
\* byte values are 0..MaxByte
MaxByte == 1
\* largest maxLength handed to circular_get
MaxGet == 4
\* largest number of circular_append calls on one buffer
MaxAppends == 3

Byte == 0..MaxByte

\* the scenario of the specification: capacity 10, "0123456789ABCDE"
ScenarioData == <<48, 49, 50, 51, 52, 53, 54, 55, 56, 57, 65, 66, 67, 68, 69>>
\* "6789ABCDE"
ScenarioClaimed == <<54, 55, 56, 57, 65, 66, 67, 68, 69>>
\* "56789ABCDE"
ScenarioLast == <<53, 54, 55, 56, 57, 65, 66, 67, 68, 69>>
\* the capacity of the scenario: 10, the length of "56789ABCDE"
ScenarioCap == Len(ScenarioLast)

VARIABLES
    circular,   \* circbuf_t: length, buffer (storage), reader, writer (offsets)
    initial,    \* the buffer as circular_new returned it
    written,    \* history: every byte handed to circular_append, in order
    chunk,      \* history: the data of the latest circular_append
    appends,    \* history: number of circular_append calls
    request,    \* maxLength of the latest circular_get, -1 when none since the last append
    response    \* buffer_t returned by the latest circular_get

ringvars == <<circular, initial, written, chunk, appends, request, response>>

\* ------------------------------------------------------------------------
\* Bounds of the process model
\* ------------------------------------------------------------------------
\* number of process records the server allocates over its life
NProcs == 2
\* number of termination signals the server receives
MaxSignals == 2

\* the records; 0 stands for NULL
Procs == 1..NProcs
\* the signals main() installs sig_handler for
Signals == {"SIGINT", "SIGTERM"}
\* what runs on the main thread: main() and the handler frames above it
Frames == {"main"} \cup Signals
\* further threads that call into the directory
Callers == {"c1", "c2"}
Threads == Frames \cup Callers

VARIABLES
    processes,  \* server->processes: the list of records, head first
    srvmutex,   \* server->mutex: "free" or the frame holding it
    force_exit, \* the shutdown flag
    state,      \* process->state of each record ("none": not allocated)
    running,    \* process->running of each record
    procmutex,  \* process->mutex of each record: "free" or its holder
    sent,       \* history: the signals kill() sent to each record's process
    thread,     \* position of each record's worker thread
    stack,      \* the handler frames running on the main thread, innermost last
    pc,         \* position of main() and of each handler frame
    arg,        \* the record a frame is working on
    idx,        \* position of a handler frame's LIST_FOREACH in processes
    exited,     \* exit() was called
    cancelled,  \* lws_cancel_service() was called
    delivered,  \* history: number of termination signals received
    wasRunning, \* history: the records Running when the first signal arrived
    walks,      \* history: number of walks of the directory completed
    sig_code,   \* server->sig_code
    id,         \* process->id of each record
    pid,        \* process->pid of each record
    owns,       \* what each record still owns of error, argv, command, logs
    call,       \* the latest directory call of each thread, with what it returned
    seen,       \* the list as a thread's LIST_INSERT_HEAD or LIST_REMOVE read it
    live,       \* history: the records inserted and not taken out since
    stopret     \* the latest tty_server_process_stop call: its record and what it returned

procvars == <<processes, srvmutex, force_exit, state, running, procmutex, sent,
              thread, stack, pc, arg, idx, exited, cancelled, delivered,
              wasRunning, walks, sig_code, id, pid, owns, call, seen, live,
              stopret>>

\* the variables of the directory calls
regvars == <<id, pid, owns, call, seen, live>>

vars == <<ringvars, procvars>>

\* ------------------------------------------------------------------------
\* Helpers
\* ------------------------------------------------------------------------
Min(a, b) == IF a < b THEN a ELSE b

SeqsUpTo(n) == UNION {[1..k -> Byte] : k \in 0..n}

\* the last n elements of s
Last(s, n) == SubSeq(s, Len(s) - n + 1, Len(s))

\* memcpy(dst + off, src, Len(src)) on a storage indexed from 0
memcpy(dst, off, src) ==
    [i \in DOMAIN dst |->
        IF i >= off /\ i < off + Len(src) THEN src[i - off + 1] ELSE dst[i]]

\* the bytes storage[from .. from + n - 1] as a sequence
Bytes(storage, from, n) == [i \in 1..n |-> storage[from + i - 1]]

\* ------------------------------------------------------------------------
\* circular buffer
\* ------------------------------------------------------------------------
\* xmalloc'ed storage is not initialised: garbage is whatever it held
circular_new(length, garbage) ==
    [length |-> length, buffer |-> garbage, reader |-> 0, writer |-> 0]

\* circular_append that forgets the write cursor when the data fits
circular_append_at_start(c, data) ==
    LET length == Len(data) IN
    IF c.writer + length < c.length
    THEN [c EXCEPT !.buffer = memcpy(c.buffer, 0, data),
                   !.writer = c.writer + length]
    ELSE IF length >= c.length
    THEN [c EXCEPT !.buffer = memcpy(c.buffer, 0, Last(data, c.length)),
                   !.writer = 0,
                   !.reader = 0]
    ELSE LET bufremain == c.length - c.writer
             tail == memcpy(c.buffer, c.writer, SubSeq(data, 1, bufremain))
         IN  [c EXCEPT !.buffer = memcpy(tail, 0, SubSeq(data, bufremain + 1, length)),
                       !.writer = length - bufremain]

circular_append(c, data) ==
    LET length == Len(data) IN
    IF c.writer + length < c.length
    THEN \* enough space: one copy at the writer
         LET w == c.writer + length IN
         [c EXCEPT !.buffer = memcpy(c.buffer, c.writer, data),
                   !.writer = IF w = c.length THEN 0 ELSE w]
    ELSE IF length >= c.length
    THEN \* data larger than the buffer: keep the latest bytes at the beginning
         [c EXCEPT !.buffer = memcpy(c.buffer, 0, Last(data, c.length)),
                   !.writer = 0,
                   !.reader = 0]
    ELSE \* copy what fits, go back to the beginning, copy the rest
         LET bufremain == c.length - c.writer
             tail == memcpy(c.buffer, c.writer, SubSeq(data, 1, bufremain))
         IN  [c EXCEPT !.buffer = memcpy(tail, 0, SubSeq(data, bufremain + 1, length)),
                       !.writer = length - bufremain]

\* circular_append copying the data in one piece at the writer when it does
\* not fit before the end of the storage
circular_append_copies_straight(c, data) ==
    LET length == Len(data) IN
    IF c.writer + length < c.length
    THEN <<[dst |-> c.writer, src |-> 1, n |-> length]>>
    ELSE IF length >= c.length
    THEN <<[dst |-> 0, src |-> length - c.length + 1, n |-> c.length]>>
    ELSE <<[dst |-> c.writer, src |-> 1, n |-> length]>>

\* the memcpy calls of circular_append in their order: n bytes of the data,
\* from its byte src on (counted from 1), to offset dst of the storage
circular_append_copies(c, data) ==
    LET length == Len(data) IN
    IF c.writer + length < c.length
    THEN <<[dst |-> c.writer, src |-> 1, n |-> length]>>
    ELSE IF length >= c.length
    THEN <<[dst |-> 0, src |-> length - c.length + 1, n |-> c.length]>>
    ELSE LET bufremain == c.length - c.writer IN
         <<[dst |-> c.writer, src |-> 1, n |-> bufremain],
           [dst |-> 0, src |-> bufremain + 1, n |-> length - bufremain]>>

NoResponse == [null |-> TRUE, length |-> 0, buffer |-> <<>>, copied |-> 0]

\* circular_get that takes the buffer for full when the reader is at the start
circular_get_full(c, maxlen) ==
    IF maxlen > c.length
    THEN NoResponse
    ELSE LET length == IF maxlen = 0
                       THEN IF c.reader = 0 THEN c.length ELSE c.writer
                       ELSE maxlen
         IN  [null |-> FALSE, length |-> length,
              buffer |-> Bytes(c.buffer, 0, length),
              copied |-> length]

\* null: NULL was returned; length: size of the returned buffer_t;
\* copied: bytes memcpy'ed into it; buffer: the bytes it holds
circular_get(c, maxlen) ==
    IF maxlen > c.length
    THEN NoResponse
    ELSE LET length == IF maxlen = 0
                       THEN IF c.reader # 0 THEN c.length ELSE c.writer
                       ELSE maxlen
         IN  IF c.reader = 0
             THEN [null |-> FALSE, length |-> length,
                   buffer |-> Bytes(c.buffer, c.reader, length),
                   copied |-> length]
             ELSE LET remain == c.length - c.reader IN
                  [null |-> FALSE, length |-> length,
                   buffer |-> Bytes(c.buffer, c.reader, remain)
                                 \o Bytes(c.buffer, 0, c.reader),
                   copied |-> remain + c.reader]

\* what a record owns besides itself
Resources == {"error", "argv", "command", "logs"}

\* no call made yet; fn: the function, key and only: its arguments,
\* ret: the record returned, 0 for NULL, name: the state name returned
NoCall == [fn |-> "none", key |-> 0, only |-> 0, ret |-> 0, name |-> ""]

\* no record yet, main() about to serve
InitRecords ==
    /\ processes = <<>>
    /\ srvmutex = "free"
    /\ force_exit = FALSE
    /\ state = [p \in Procs |-> "none"]
    /\ running = [p \in Procs |-> FALSE]
    /\ procmutex = [p \in Procs |-> "free"]
    /\ sent = [p \in Procs |-> <<>>]
    /\ thread = [p \in Procs |-> "none"]
    /\ stack = <<>>
    /\ arg = [f \in Threads |-> 0]
    /\ idx = [f \in Frames |-> 0]
    /\ exited = FALSE
    /\ cancelled = FALSE
    /\ delivered = 0
    /\ wasRunning = {}
    /\ walks = 0
    /\ stopret = <<0, "none">>
    /\ id = [p \in Procs |-> 0]
    /\ pid = [p \in Procs |-> 0]
    /\ owns = [p \in Procs |-> {}]
    /\ call = [t \in Threads |-> NoCall]
    /\ seen = [t \in Threads |-> <<>>]
    /\ live = {}

\* the server as tty_server_new() leaves it
InitServer ==
    /\ InitRecords
    /\ sig_code = "SIGHUP"
    /\ pc = [f \in Threads |-> IF f = "main" THEN "loop" ELSE "idle"]

\* ------------------------------------------------------------------------
\* Specification of one circular buffer: create, append chunks, snapshot
\* ------------------------------------------------------------------------
InitRing ==
    /\ InitServer
    /\ \E length \in 1..MaxCap : \E garbage \in [0..(length - 1) -> Byte] :
          /\ circular = circular_new(length, garbage)
          /\ initial = circular_new(length, garbage)
    /\ written = <<>>
    /\ chunk = <<>>
    /\ appends = 0
    /\ request = -1
    /\ response = NoResponse

CircularAppend ==
    \E data \in SeqsUpTo(MaxLen) :
        /\ appends < MaxAppends
        /\ Len(written) + Len(data) <= MaxTotal
        /\ circular' = circular_append(circular, data)
        /\ written' = written \o data
        /\ chunk' = data
        /\ appends' = appends + 1
        /\ request' = -1
        /\ response' = NoResponse
        /\ UNCHANGED <<initial, procvars>>

CircularGet ==
    \E maxlen \in 0..MaxGet :
        /\ request' = maxlen
        /\ response' = circular_get(circular, maxlen)
        /\ UNCHANGED <<circular, initial, written, chunk, appends, procvars>>

NextRing == CircularAppend \/ CircularGet

SpecRing == InitRing /\ [][NextRing]_vars

\* the scenario of the specification: a fresh buffer of capacity 10 and one
\* append of the 15 bytes
InitScenario ==
    /\ InitServer
    /\ \E garbage \in [0..(ScenarioCap - 1) -> Byte] :
          /\ circular = circular_new(ScenarioCap, garbage)
          /\ initial = circular_new(ScenarioCap, garbage)
    /\ written = <<>>
    /\ chunk = <<>>
    /\ appends = 0
    /\ request = -1
    /\ response = NoResponse

ScenarioAppend ==
    /\ appends = 0
    /\ circular' = circular_append(circular, ScenarioData)
    /\ written' = written \o ScenarioData
    /\ chunk' = ScenarioData
    /\ appends' = appends + 1
    /\ request' = -1
    /\ response' = NoResponse
    /\ UNCHANGED <<initial, procvars>>

NextScenario == ScenarioAppend \/ CircularGet

SpecScenario == InitScenario /\ [][NextScenario]_vars

\* ------------------------------------------------------------------------
\* Properties of the circular buffer
\* ------------------------------------------------------------------------
\* the window the buffer is to retain: the most recent min(written, C) bytes
Retained == Last(written, Min(Len(written), circular.length))

\* a snapshot(0) of the current contents has been taken
Snapshot0 == request = 0

\* C1: once at least C bytes have been appended, circular_get(0) returns
\* exactly the last C bytes written, oldest first.
BoundedRetention ==
    (Snapshot0 /\ Len(written) >= circular.length) =>
        /\ ~response.null
        /\ response.buffer = Last(written, circular.length)

\* C6: after one append of a chunk of length >= C, circular_get(0) returns
\* exactly the last C bytes of that chunk.
OversizedAppend ==
    (Snapshot0 /\ appends >= 1 /\ Len(chunk) >= circular.length) =>
        /\ ~response.null
        /\ response.buffer = Last(chunk, circular.length)

\* C7: whatever the chunks the data was appended in, circular_get(0) returns
\* what it returns after one single append of all the data to the fresh buffer.
ChunkingIndependence ==
    Snapshot0 => response = circular_get(circular_append(initial, written), 0)

\* C8: while fewer than C bytes have been appended in total, circular_get(0)
\* returns all of them, in the order they were appended.
SnapshotBeforeWrap ==
    (Snapshot0 /\ Len(written) < circular.length) =>
        /\ ~response.null
        /\ response.length = Len(written)
        /\ response.buffer = written

\* C8 witness: a snapshot(0) of a buffer that took two non-empty appends and
\* is still not full.
SnapshotBeforeWrapTaken ==
    /\ Snapshot0
    /\ appends >= 2
    /\ Len(chunk) >= 1
    /\ Len(chunk) < Len(written)
    /\ Len(written) < circular.length
    /\ response.buffer = written

\* s is a run of consecutive elements of t
IsWindowOf(s, t) ==
    \E from \in 1..(Len(t) + 1) :
        /\ from + Len(s) - 1 <= Len(t)
        /\ s = SubSeq(t, from, from + Len(s) - 1)

\* C9: circular_get(maxLength), maxLength nonzero, returns
\* min(maxLength, retained) bytes, all of them retained bytes in
\* oldest-to-newest order, and copies no more than the returned buffer holds.
BoundedSnapshot ==
    (request > 0) =>
        /\ ~response.null
        /\ response.length = Min(request, Len(Retained))
        /\ IsWindowOf(response.buffer, Retained)
        /\ response.copied <= response.length

KillSignal == "SIGTERM"

\* the program is running: exit() was not called and main() has not returned
Alive == ~exited /\ pc["main"] # "done"

\* frame f is the one the main thread is executing
Top(f) == IF stack = <<>> THEN f = "main" ELSE f = stack[Len(stack)]

\* thread or frame f can take a step
Runs(f) == Alive /\ (f \in Frames => Top(f))

\* where a call of main() or of a caller returns to
Home(t) == IF t = "main" THEN "loop" ELSE "returned"

\* where tty_server_process_stop returns to: the service loop of main() or of
\* a caller, or the LIST_FOREACH of sig_handler
Return(f) ==
    IF f \notin Signals
    THEN /\ pc' = [pc EXCEPT ![f] = Home(f)]
         /\ arg' = [arg EXCEPT ![f] = 0]
         /\ idx' = idx
    ELSE /\ pc' = [pc EXCEPT ![f] = "walk"]
         /\ arg' = [arg EXCEPT ![f] = 0]
         /\ idx' = [idx EXCEPT ![f] = @ + 1]

\* tty_server_process_stop without its test of process->running
StopCheckAlways(f) ==
    /\ Runs(f)
    /\ pc[f] = "stop_check"
    /\ pc' = [pc EXCEPT ![f] = "stop_kill"]
    /\ UNCHANGED <<processes, srvmutex, force_exit, state, running, procmutex,
                   sent, thread, stack, arg, idx, exited, cancelled, delivered,
                   wasRunning, walks, ringvars, sig_code, stopret, regvars>>

\* tty_server_process_stop: the test of process->running, outside the mutex
StopCheck(f) ==
    /\ Runs(f)
    /\ pc[f] = "stop_check"
    /\ IF running[arg[f]] = FALSE
       THEN /\ stopret' = <<arg[f], "NULL">>
            /\ Return(f)
       ELSE /\ pc' = [pc EXCEPT ![f] = "stop_kill"]
            /\ UNCHANGED <<arg, idx, stopret>>
    /\ UNCHANGED <<processes, srvmutex, force_exit, state, running, procmutex,
                   sent, thread, stack, exited, cancelled, delivered,
                   wasRunning, walks, ringvars, sig_code, regvars>>

\* tty_server_process_stop: kill(process->pid, SIGTERM)
StopKill(f) ==
    /\ Runs(f)
    /\ pc[f] = "stop_kill"
    /\ sent' = [sent EXCEPT ![arg[f]] = Append(@, KillSignal)]
    /\ pc' = [pc EXCEPT ![f] = "stop_lock"]
    /\ UNCHANGED <<processes, srvmutex, force_exit, state, running, procmutex,
                   thread, stack, arg, idx, exited, cancelled, delivered,
                   wasRunning, walks, ringvars, sig_code, stopret, regvars>>

\* tty_server_process_stop: pthread_mutex_lock(&process->mutex)
StopLock(f) ==
    /\ Runs(f)
    /\ pc[f] = "stop_lock"
    /\ procmutex[arg[f]] = "free"
    /\ procmutex' = [procmutex EXCEPT ![arg[f]] = f]
    /\ pc' = [pc EXCEPT ![f] = "stop_set"]
    /\ UNCHANGED <<processes, srvmutex, force_exit, state, running, sent,
                   thread, stack, arg, idx, exited, cancelled, delivered,
                   wasRunning, walks, ringvars, sig_code, stopret, regvars>>

\* tty_server_process_stop: running = false, state = STOPPING, unlock, return
StopSet(f) ==
    /\ Runs(f)
    /\ pc[f] = "stop_set"
    /\ running' = [running EXCEPT ![arg[f]] = FALSE]
    /\ state' = [state EXCEPT ![arg[f]] = "stopping"]
    /\ procmutex' = [procmutex EXCEPT ![arg[f]] = "free"]
    /\ stopret' = <<arg[f], "process">>
    /\ Return(f)
    /\ UNCHANGED <<processes, srvmutex, force_exit, sent, thread, stack,
                   exited, cancelled, delivered, wasRunning, walks, ringvars, sig_code, regvars>>

tty_server_process_stop ==
    \E f \in Threads : StopCheck(f) \/ StopKill(f) \/ StopLock(f) \/ StopSet(f)

\* sig_handler without its test of force_exit: every signal starts a walk
SigEnterAlways(k) ==
    /\ Alive
    /\ delivered < MaxSignals
    /\ \A i \in 1..Len(stack) : stack[i] # k
    /\ delivered' = delivered + 1
    /\ wasRunning' = IF delivered = 0
                     THEN {p \in Procs : state[p] = "running"}
                     ELSE wasRunning
    /\ stack' = Append(stack, k)
    /\ pc' = [pc EXCEPT ![k] = "set"]
    /\ UNCHANGED <<processes, srvmutex, force_exit, state, running, procmutex,
                   sent, thread, arg, idx, exited, cancelled, walks, ringvars, sig_code, stopret, regvars>>

\* sig_handler is entered for signal k, on the main thread, above whatever
\* the thread was executing; a signal is blocked while its own handler runs.
\* With force_exit set it calls exit().
SigEnter(k) ==
    /\ Alive
    /\ delivered < MaxSignals
    /\ \A i \in 1..Len(stack) : stack[i] # k
    /\ delivered' = delivered + 1
    /\ wasRunning' = IF delivered = 0
                     THEN {p \in Procs : state[p] = "running"}
                     ELSE wasRunning
    /\ IF force_exit
       THEN /\ exited' = TRUE
            /\ UNCHANGED <<stack, pc>>
       ELSE /\ stack' = Append(stack, k)
            /\ pc' = [pc EXCEPT ![k] = "set"]
            /\ UNCHANGED exited
    /\ UNCHANGED <<processes, srvmutex, force_exit, state, running, procmutex,
                   sent, thread, arg, idx, cancelled, walks, ringvars, sig_code, stopret, regvars>>

\* sig_handler: force_exit = true
SigSet(k) ==
    /\ Runs(k)
    /\ pc[k] = "set"
    /\ force_exit' = TRUE
    /\ pc' = [pc EXCEPT ![k] = "lock"]
    /\ UNCHANGED <<processes, srvmutex, state, running, procmutex, sent, thread,
                   stack, arg, idx, exited, cancelled, delivered,
                   wasRunning, walks, ringvars, sig_code, stopret, regvars>>

\* sig_handler: pthread_mutex_lock(&server->mutex), LIST_FOREACH starts
SigLock(k) ==
    /\ Runs(k)
    /\ pc[k] = "lock"
    /\ srvmutex = "free"
    /\ srvmutex' = k
    /\ idx' = [idx EXCEPT ![k] = 1]
    /\ pc' = [pc EXCEPT ![k] = "walk"]
    /\ UNCHANGED <<processes, force_exit, state, running, procmutex, sent,
                   thread, stack, arg, exited, cancelled, delivered,
                   wasRunning, walks, ringvars, sig_code, stopret, regvars>>

\* sig_handler: LIST_FOREACH calls tty_server_process_stop on the next
\* record, or is over and the mutex is unlocked
SigWalk(k) ==
    /\ Runs(k)
    /\ pc[k] = "walk"
    /\ IF idx[k] <= Len(processes)
       THEN /\ arg' = [arg EXCEPT ![k] = processes[idx[k]]]
            /\ pc' = [pc EXCEPT ![k] = "stop_check"]
            /\ UNCHANGED <<srvmutex, idx, walks>>
       ELSE /\ srvmutex' = "free"
            /\ idx' = [idx EXCEPT ![k] = 0]
            /\ walks' = walks + 1
            /\ pc' = [pc EXCEPT ![k] = "cancel"]
            /\ UNCHANGED arg
    /\ UNCHANGED <<processes, force_exit, state, running, procmutex, sent,
                   thread, stack, exited, cancelled, delivered,
                   wasRunning, ringvars, sig_code, stopret, regvars>>

\* sig_handler: lws_cancel_service(context), return
SigCancel(k) ==
    /\ Runs(k)
    /\ pc[k] = "cancel"
    /\ cancelled' = TRUE
    /\ stack' = SubSeq(stack, 1, Len(stack) - 1)
    /\ pc' = [pc EXCEPT ![k] = "idle"]
    /\ UNCHANGED <<processes, srvmutex, force_exit, state, running, procmutex,
                   sent, thread, arg, idx, exited, delivered, wasRunning,
                   walks, ringvars, sig_code, stopret, regvars>>

sig_handler ==
    \E k \in Signals : SigSet(k) \/ SigLock(k) \/ SigWalk(k) \/ SigCancel(k)

\* main: while(!force_exit)
MainLoop ==
    /\ Runs("main")
    /\ pc["main"] = "loop"
    /\ pc' = [pc EXCEPT !["main"] = IF force_exit THEN "cleanup" ELSE "service"]
    /\ UNCHANGED <<processes, srvmutex, force_exit, state, running, procmutex,
                   sent, thread, stack, arg, idx, exited, cancelled,
                   delivered, wasRunning, walks, ringvars, sig_code, stopret, regvars>>

\* main: lws_service returns with nothing done
ServiceReturn ==
    /\ Runs("main")
    /\ pc["main"] = "service"
    /\ pc' = [pc EXCEPT !["main"] = "loop"]
    /\ UNCHANGED <<processes, srvmutex, force_exit, state, running, procmutex,
                   sent, thread, stack, arg, idx, exited, cancelled,
                   delivered, wasRunning, walks, ringvars, sig_code, stopret, regvars>>

\* the next record xmalloc hands out
NextRecord == CHOOSE p \in Procs : state[p] = "none" /\ \A q \in Procs : q < p => state[q] # "none"

\* every record gets the same id
AddressOfFirst(p) == 1

\* the internal id of a record is its address
Address(p) == p

\* a call of thread t returns c: a caller keeps what its call returned,
\* main() drops it
Returns(t, c) == [call EXCEPT ![t] = IF t = "main" THEN NoCall ELSE c]

\* tty_server_process_start going on to the insertion when pthread_create
\* has failed
StartCreateAnyway(t) ==
    /\ Runs(t)
    /\ pc[t] = "service"
    /\ \E p \in Procs : state[p] = "none"
    /\ state' = [state EXCEPT ![NextRecord] = "created"]
    /\ id' = [id EXCEPT ![NextRecord] = Address(NextRecord)]
    /\ owns' = [owns EXCEPT ![NextRecord] = Resources]
    /\ \E ok \in BOOLEAN :
          thread' = [thread EXCEPT ![NextRecord] = IF ok THEN "start" ELSE "none"]
    /\ arg' = [arg EXCEPT ![t] = NextRecord]
    /\ pc' = [pc EXCEPT ![t] = "start_lock"]
    /\ call' = [call EXCEPT ![t] = NoCall]
    /\ UNCHANGED <<processes, srvmutex, force_exit, running, procmutex, sent,
                   stack, idx, exited, cancelled, delivered, wasRunning,
                   walks, ringvars, sig_code, stopret, pid, seen, live>>

\* tty_server_process_start up to pthread_create: the record is allocated
\* in state CREATED with its id and its resources; when pthread_create
\* fails NULL is returned
StartCreate(t) ==
    /\ Runs(t)
    /\ pc[t] = "service"
    /\ \E p \in Procs : state[p] = "none"
    /\ state' = [state EXCEPT ![NextRecord] = "created"]
    /\ id' = [id EXCEPT ![NextRecord] = Address(NextRecord)]
    /\ owns' = [owns EXCEPT ![NextRecord] = Resources]
    /\ \E ok \in BOOLEAN :
          IF ok
          THEN /\ thread' = [thread EXCEPT ![NextRecord] = "start"]
               /\ arg' = [arg EXCEPT ![t] = NextRecord]
               /\ pc' = [pc EXCEPT ![t] = "start_lock"]
               /\ call' = [call EXCEPT ![t] = NoCall]
          ELSE /\ pc' = [pc EXCEPT ![t] = Home(t)]
               /\ call' = Returns(t, [NoCall EXCEPT !.fn = "tty_server_process_start"])
               /\ UNCHANGED <<thread, arg>>
    /\ UNCHANGED <<processes, srvmutex, force_exit, running, procmutex, sent,
                   stack, idx, exited, cancelled, delivered, wasRunning,
                   walks, ringvars, sig_code, stopret, pid, seen, live>>

\* tty_server_process_start reading the head of the list without waiting
\* for the mutex
StartLockNoWait(t) ==
    /\ Runs(t)
    /\ pc[t] = "start_lock"
    /\ srvmutex' = t
    /\ seen' = [seen EXCEPT ![t] = processes]
    /\ pc' = [pc EXCEPT ![t] = "start_insert"]
    /\ UNCHANGED <<processes, force_exit, state, running, procmutex, sent,
                   thread, stack, arg, idx, exited, cancelled, delivered,
                   wasRunning, walks, ringvars, sig_code, stopret, id, pid,
                   owns, call, live>>

\* tty_server_process_start: pthread_mutex_lock(&ts->mutex); LIST_INSERT_HEAD
\* reads the head of the list
StartLock(t) ==
    /\ Runs(t)
    /\ pc[t] = "start_lock"
    /\ srvmutex = "free"
    /\ srvmutex' = t
    /\ seen' = [seen EXCEPT ![t] = processes]
    /\ pc' = [pc EXCEPT ![t] = "start_insert"]
    /\ UNCHANGED <<processes, force_exit, state, running, procmutex, sent,
                   thread, stack, arg, idx, exited, cancelled, delivered,
                   wasRunning, walks, ringvars, sig_code, stopret, id, pid,
                   owns, call, live>>

\* tty_server_process_start: LIST_INSERT_HEAD links the record before the
\* head it read, unlock, return
StartInsert(t) ==
    /\ Runs(t)
    /\ pc[t] = "start_insert"
    /\ processes' = <<arg[t]>> \o seen[t]
    /\ live' = live \cup {arg[t]}
    /\ srvmutex' = "free"
    /\ seen' = [seen EXCEPT ![t] = <<>>]
    /\ call' = Returns(t, [NoCall EXCEPT !.fn = "tty_server_process_start",
                                         !.ret = arg[t]])
    /\ arg' = [arg EXCEPT ![t] = 0]
    /\ pc' = [pc EXCEPT ![t] = Home(t)]
    /\ UNCHANGED <<force_exit, state, running, procmutex, sent, thread, stack,
                   idx, exited, cancelled, delivered, wasRunning, walks,
                   ringvars, sig_code, stopret, id, pid, owns>>

tty_server_process_start ==
    \E t \in Threads \ Signals : StartCreate(t) \/ StartLock(t) \/ StartInsert(t)

\* a callback of the service loop calls tty_server_process_stop on a record
\* it holds a pointer to
ServiceStop ==
    /\ Runs("main")
    /\ pc["main"] = "service"
    /\ \E p \in Procs :
          /\ state[p] # "none"
          /\ arg' = [arg EXCEPT !["main"] = p]
    /\ pc' = [pc EXCEPT !["main"] = "stop_check"]
    /\ UNCHANGED <<processes, srvmutex, force_exit, state, running, procmutex,
                   sent, thread, stack, idx, exited, cancelled, delivered,
                   wasRunning, walks, ringvars, sig_code, stopret, regvars>>

\* main: lws_context_destroy, tty_server_free, return
MainCleanup ==
    /\ Runs("main")
    /\ pc["main"] = "cleanup"
    /\ pc' = [pc EXCEPT !["main"] = "done"]
    /\ UNCHANGED <<processes, srvmutex, force_exit, state, running, procmutex,
                   sent, thread, stack, arg, idx, exited, cancelled,
                   delivered, wasRunning, walks, ringvars, sig_code, stopret, regvars>>

main == MainLoop \/ ServiceReturn \/ ServiceStop \/ MainCleanup

\* the worker thread: CREATED -> STARTING
WorkerStart(p) ==
    /\ Alive
    /\ thread[p] = "start"
    /\ procmutex[p] = "free"
    /\ state' = [state EXCEPT ![p] = "starting"]
    /\ thread' = [thread EXCEPT ![p] = "spawn"]
    /\ UNCHANGED <<processes, srvmutex, force_exit, running, procmutex, sent,
                   stack, pc, arg, idx, exited, cancelled, delivered,
                   wasRunning, walks, ringvars, sig_code, stopret, regvars>>

\* the pid the OS gives to the process of record p: no two living
\* processes share one
NewPid(p) == p

\* the worker thread: the spawn succeeds (RUNNING, with the pid) or fails
\* (CRASHED)
WorkerSpawn(p) ==
    /\ Alive
    /\ thread[p] = "spawn"
    /\ procmutex[p] = "free"
    /\ \E ok \in BOOLEAN :
          IF ok
          THEN /\ state' = [state EXCEPT ![p] = "running"]
               /\ running' = [running EXCEPT ![p] = TRUE]
               /\ pid' = [pid EXCEPT ![p] = NewPid(p)]
               /\ thread' = [thread EXCEPT ![p] = "wait"]
          ELSE /\ state' = [state EXCEPT ![p] = "crashed"]
               /\ thread' = [thread EXCEPT ![p] = "done"]
               /\ UNCHANGED <<running, pid>>
    /\ UNCHANGED <<processes, srvmutex, force_exit, procmutex, sent, stack, pc,
                   arg, idx, exited, cancelled, delivered, wasRunning, walks,
                   ringvars, sig_code, stopret, id, owns, call, seen, live>>

\* the worker thread observes the exit of the OS process, which came of its
\* own or of a signal: STOPPED after a requestStop or a clean exit, CRASHED
\* otherwise
WorkerExit(p) ==
    /\ Alive
    /\ thread[p] = "wait"
    /\ procmutex[p] = "free"
    /\ \E how \in {"clean", "abnormal"} :
          state' = [state EXCEPT ![p] =
                       IF state[p] = "stopping" \/ how = "clean"
                       THEN "stopped" ELSE "crashed"]
    /\ running' = [running EXCEPT ![p] = FALSE]
    /\ thread' = [thread EXCEPT ![p] = "done"]
    /\ UNCHANGED <<processes, srvmutex, force_exit, procmutex, sent, stack, pc, arg, idx, exited, cancelled, delivered, wasRunning,
                   walks, ringvars, sig_code, stopret, regvars>>

mainthread_run_command ==
    \E p \in Procs : WorkerStart(p) \/ WorkerSpawn(p) \/ WorkerExit(p)

Signal == \E k \in Signals : SigEnter(k)

\* main() is about to serve, with the default configuration
Init ==
    /\ InitServer
    /\ circular = circular_new(1, [i \in 0..0 |-> 0])
    /\ initial = circular
    /\ written = <<>>
    /\ chunk = <<>>
    /\ appends = 0
    /\ request = -1
    /\ response = NoResponse

Next ==
    \/ main
    \/ tty_server_process_start
    \/ tty_server_process_stop
    \/ sig_handler
    \/ Signal
    \/ mainthread_run_command

Spec == Init /\ [][Next]_vars

\* the threads of the program are scheduled fairly; signals and the exits of
\* the OS processes come when they come
FairSpec ==
    /\ Spec
    /\ WF_vars(main)
    /\ WF_vars(tty_server_process_start)
    /\ WF_vars(tty_server_process_stop)
    /\ WF_vars(sig_handler)
    /\ WF_vars(mainthread_run_command)

\* ------------------------------------------------------------------------
\* The directory of records under concurrent callers
\* ------------------------------------------------------------------------
\* record p is registered and no thread is working on it: a caller may pass
\* it to a call
Usable(p) == p \in {processes[i] : i \in 1..Len(processes)} /\ \A u \in Threads : arg[u] # p

\* process_remove is called on a record no other caller is removing
RemoveCall(t) ==
    /\ Runs(t)
    /\ pc[t] = "service"
    /\ \E p \in Procs :
          /\ Usable(p)
          /\ arg' = [arg EXCEPT ![t] = p]
    /\ call' = [call EXCEPT ![t] = NoCall]
    /\ pc' = [pc EXCEPT ![t] = "rm_unmap"]
    /\ UNCHANGED <<processes, srvmutex, force_exit, state, running, procmutex,
                   sent, thread, stack, idx, exited, cancelled, delivered,
                   wasRunning, walks, ringvars, sig_code, stopret, id, pid,
                   owns, seen, live>>

\* process_remove: munmap(process->error, ...)
RemoveUnmap(t) ==
    /\ Runs(t)
    /\ pc[t] = "rm_unmap"
    /\ owns' = [owns EXCEPT ![arg[t]] = @ \ {"error"}]
    /\ pc' = [pc EXCEPT ![t] = "rm_join"]
    /\ UNCHANGED <<processes, srvmutex, force_exit, state, running, procmutex,
                   sent, thread, stack, arg, idx, exited, cancelled, delivered,
                   wasRunning, walks, ringvars, sig_code, stopret, id, pid,
                   call, seen, live>>

\* process_remove: pthread_join(process->thread, NULL) returns once the
\* worker has ended; the argv, the command and the logs are freed
RemoveJoin(t) ==
    /\ Runs(t)
    /\ pc[t] = "rm_join"
    /\ thread[arg[t]] = "done"
    /\ thread' = [thread EXCEPT ![arg[t]] = "joined"]
    /\ owns' = [owns EXCEPT ![arg[t]] = @ \ {"argv", "command", "logs"}]
    /\ pc' = [pc EXCEPT ![t] = "rm_lock"]
    /\ UNCHANGED <<processes, srvmutex, force_exit, state, running, procmutex,
                   sent, stack, arg, idx, exited, cancelled, delivered,
                   wasRunning, walks, ringvars, sig_code, stopret, id, pid,
                   call, seen, live>>

\* process_remove: pthread_mutex_lock(&server->mutex); LIST_REMOVE reads the
\* neighbours of the record
RemoveLock(t) ==
    /\ Runs(t)
    /\ pc[t] = "rm_lock"
    /\ srvmutex = "free"
    /\ srvmutex' = t
    /\ seen' = [seen EXCEPT ![t] = processes]
    /\ pc' = [pc EXCEPT ![t] = "rm_unlink"]
    /\ UNCHANGED <<processes, force_exit, state, running, procmutex, sent,
                   thread, stack, arg, idx, exited, cancelled, delivered,
                   wasRunning, walks, ringvars, sig_code, stopret, id, pid,
                   owns, call, live>>

\* process_remove: LIST_REMOVE links the neighbours it read to each other,
\* unlock, free(process); xmalloc may hand the record out again
RemoveUnlink(t) ==
    /\ Runs(t)
    /\ pc[t] = "rm_unlink"
    /\ processes' = SelectSeq(seen[t], LAMBDA q : q # arg[t])
    /\ live' = live \ {arg[t]}
    /\ srvmutex' = "free"
    /\ seen' = [seen EXCEPT ![t] = <<>>]
    /\ state' = [state EXCEPT ![arg[t]] = "none"]
    /\ running' = [running EXCEPT ![arg[t]] = FALSE]
    /\ thread' = [thread EXCEPT ![arg[t]] = "none"]
    /\ sent' = [sent EXCEPT ![arg[t]] = <<>>]
    /\ id' = [id EXCEPT ![arg[t]] = 0]
    /\ pid' = [pid EXCEPT ![arg[t]] = 0]
    /\ owns' = [owns EXCEPT ![arg[t]] = {}]
    /\ arg' = [arg EXCEPT ![t] = 0]
    /\ pc' = [pc EXCEPT ![t] = Home(t)]
    /\ UNCHANGED <<force_exit, procmutex, stack, idx, exited, cancelled,
                   delivered, wasRunning, walks, ringvars, sig_code, stopret,
                   call>>

process_remove ==
    \E t \in Callers :
        \/ RemoveCall(t) \/ RemoveUnmap(t) \/ RemoveJoin(t)
        \/ RemoveLock(t) \/ RemoveUnlink(t)

\* the LIST_FOREACH of process_getby_id over list: the first record with
\* the id, 0 for NULL
RECURSIVE getby_id(_, _)
getby_id(list, key) ==
    IF list = <<>> THEN 0
    ELSE IF id[Head(list)] = key THEN Head(list)
    ELSE getby_id(Tail(list), key)

\* process_getby_id: pthread_mutex_lock(&server->mutex)
GetByIdLock(t) ==
    /\ Runs(t)
    /\ pc[t] = "service"
    /\ srvmutex = "free"
    /\ srvmutex' = t
    /\ \E key \in Procs :
          call' = [call EXCEPT ![t] =
                      [NoCall EXCEPT !.fn = "process_getby_id", !.key = key]]
    /\ pc' = [pc EXCEPT ![t] = "id_scan"]
    /\ UNCHANGED <<processes, force_exit, state, running, procmutex, sent,
                   thread, stack, arg, idx, exited, cancelled, delivered,
                   wasRunning, walks, ringvars, sig_code, stopret, id, pid,
                   owns, seen, live>>

\* process_getby_id: the walk of the list, unlock, return
GetByIdScan(t) ==
    /\ Runs(t)
    /\ pc[t] = "id_scan"
    /\ call' = [call EXCEPT ![t].ret = getby_id(processes, call[t].key)]
    /\ srvmutex' = "free"
    /\ pc' = [pc EXCEPT ![t] = Home(t)]
    /\ UNCHANGED <<processes, force_exit, state, running, procmutex, sent,
                   thread, stack, arg, idx, exited, cancelled, delivered,
                   wasRunning, walks, ringvars, sig_code, stopret, id, pid,
                   owns, seen, live>>

process_getby_id == \E t \in Callers : GetByIdLock(t) \/ GetByIdScan(t)

\* the LIST_FOREACH of process_getby_pid over list: records that do not run
\* are passed over when only_running is 1; the first record with the pid,
\* 0 for NULL
RECURSIVE getby_pid(_, _, _)
getby_pid(list, key, only) ==
    IF list = <<>> THEN 0
    ELSE IF running[Head(list)] = FALSE /\ only = 1
         THEN getby_pid(Tail(list), key, only)
    ELSE IF pid[Head(list)] = key THEN Head(list)
    ELSE getby_pid(Tail(list), key, only)

\* process_getby_pid: pthread_mutex_lock(&server->mutex)
GetByPidLock(t) ==
    /\ Runs(t)
    /\ pc[t] = "service"
    /\ srvmutex = "free"
    /\ srvmutex' = t
    /\ \E key \in Procs, only \in {0, 1} :
          call' = [call EXCEPT ![t] =
                      [NoCall EXCEPT !.fn = "process_getby_pid", !.key = key,
                                     !.only = only]]
    /\ pc' = [pc EXCEPT ![t] = "pid_scan"]
    /\ UNCHANGED <<processes, force_exit, state, running, procmutex, sent,
                   thread, stack, arg, idx, exited, cancelled, delivered,
                   wasRunning, walks, ringvars, sig_code, stopret, id, pid,
                   owns, seen, live>>

\* process_getby_pid walking the list without its test of process->running
GetByPidScanAny(t) ==
    /\ Runs(t)
    /\ pc[t] = "pid_scan"
    /\ call' = [call EXCEPT ![t].ret = getby_pid(processes, call[t].key, 0)]
    /\ srvmutex' = "free"
    /\ pc' = [pc EXCEPT ![t] = Home(t)]
    /\ UNCHANGED <<processes, force_exit, state, running, procmutex, sent,
                   thread, stack, arg, idx, exited, cancelled, delivered,
                   wasRunning, walks, ringvars, sig_code, stopret, id, pid,
                   owns, seen, live>>

\* process_getby_pid: the walk of the list, unlock, return
GetByPidScan(t) ==
    /\ Runs(t)
    /\ pc[t] = "pid_scan"
    /\ call' = [call EXCEPT ![t].ret =
                   getby_pid(processes, call[t].key, call[t].only)]
    /\ srvmutex' = "free"
    /\ pc' = [pc EXCEPT ![t] = Home(t)]
    /\ UNCHANGED <<processes, force_exit, state, running, procmutex, sent,
                   thread, stack, arg, idx, exited, cancelled, delivered,
                   wasRunning, walks, ringvars, sig_code, stopret, id, pid,
                   owns, seen, live>>

process_getby_pid == \E t \in Callers : GetByPidLock(t) \/ GetByPidScan(t)

\* tty_server_process_state: pthread_mutex_lock(&process->mutex)
StateLock(t) ==
    /\ Runs(t)
    /\ pc[t] = "service"
    /\ \E p \in Procs :
          /\ Usable(p)
          /\ procmutex[p] = "free"
          /\ procmutex' = [procmutex EXCEPT ![p] = t]
          /\ arg' = [arg EXCEPT ![t] = p]
    /\ call' = [call EXCEPT ![t] = NoCall]
    /\ pc' = [pc EXCEPT ![t] = "state_read"]
    /\ UNCHANGED <<processes, srvmutex, force_exit, state, running, sent,
                   thread, stack, idx, exited, cancelled, delivered,
                   wasRunning, walks, ringvars, sig_code, stopret, id, pid,
                   owns, seen, live>>

\* tty_server_process_state: the name of process->state is read, unlock,
\* return
StateRead(t) ==
    /\ Runs(t)
    /\ pc[t] = "state_read"
    /\ call' = [call EXCEPT ![t] =
                   [NoCall EXCEPT !.fn = "tty_server_process_state",
                                  !.name = state[arg[t]]]]
    /\ procmutex' = [procmutex EXCEPT ![arg[t]] = "free"]
    /\ arg' = [arg EXCEPT ![t] = 0]
    /\ pc' = [pc EXCEPT ![t] = Home(t)]
    /\ UNCHANGED <<processes, srvmutex, force_exit, state, running, sent,
                   thread, stack, idx, exited, cancelled, delivered,
                   wasRunning, walks, ringvars, sig_code, stopret, id, pid,
                   owns, seen, live>>

tty_server_process_state == \E t \in Callers : StateLock(t) \/ StateRead(t)

\* a caller has taken what its call returned and goes on to its next call
CallerNext(t) ==
    /\ Runs(t)
    /\ pc[t] = "returned"
    /\ call' = [call EXCEPT ![t] = NoCall]
    /\ pc' = [pc EXCEPT ![t] = "service"]
    /\ UNCHANGED <<processes, srvmutex, force_exit, state, running, procmutex,
                   sent, thread, stack, arg, idx, exited, cancelled, delivered,
                   wasRunning, walks, ringvars, sig_code, stopret, id, pid,
                   owns, seen, live>>

callers == \E t \in Callers : CallerNext(t)

\* the service loop runs and two callers, callbacks or threads, make their
\* calls; no signal is handled
InitRegistry ==
    /\ InitRecords
    /\ sig_code = "SIGHUP"
    /\ pc = [f \in Threads |->
                IF f \in Callers THEN "service"
                ELSE IF f = "main" THEN "serving" ELSE "idle"]
    /\ circular = circular_new(1, [i \in 0..0 |-> 0])
    /\ initial = circular
    /\ written = <<>>
    /\ chunk = <<>>
    /\ appends = 0
    /\ request = -1
    /\ response = NoResponse

NextRegistry ==
    \/ callers
    \/ tty_server_process_start
    \/ process_remove
    \/ process_getby_id
    \/ process_getby_pid
    \/ tty_server_process_state
    \/ mainthread_run_command

SpecRegistry == InitRegistry /\ [][NextRegistry]_vars

\* ------------------------------------------------------------------------
\* Properties of the lifecycle and of the shutdown
\* ------------------------------------------------------------------------
\* the state changes of the lifecycle (a record is allocated in CREATED)
Legal ==
    {<<"none", "created">>, <<"created", "starting">>, <<"starting", "running">>,
     <<"starting", "crashed">>, <<"running", "stopping">>,
     <<"running", "crashed">>, <<"stopping", "stopped">>}

\* C2: the state of a record changes only along Created->Starting,
\* Starting->Running, Starting->Crashed, Running->Stopping, Running->Crashed
\* and Stopping->Stopped, and never once it is Stopped or Crashed.
StateMachineLegality ==
    [][\A p \in Procs :
          /\ state'[p] # state[p] => <<state[p], state'[p]>> \in Legal
          /\ state[p] \in {"stopped", "crashed"} => state'[p] = state[p]]_vars

\* C3: once a walk of sig_handler has completed, every record that was
\* Running when the shutdown began is Stopping or later and its process was
\* signalled exactly once, whatever the number of walks.
ShutdownCompleteness ==
    walks >= 1 =>
        \A p \in wasRunning :
            /\ state[p] \in {"stopping", "stopped", "crashed"}
            /\ Len(sent[p]) = 1

\* the shutdown is over: the flag is set, the walk is finished, the event
\* loop is cancelled and main() has left its service loop
ShutdownDone ==
    /\ force_exit
    /\ walks >= 1
    /\ cancelled
    /\ pc["main"] \in {"cleanup", "done"}

\* C4: after the first termination signal, whatever the main thread was
\* doing, the shutdown gets done (unless a further signal forces the exit).
ShutdownLiveness == (delivered >= 1) ~> (ShutdownDone \/ exited)

\* C5: a termination signal that arrives with force_exit set ends the
\* program in that very step: no lock is taken, no walk is started, no
\* process is signalled, no record changes, and nothing runs afterwards.
ForcedExit ==
    [][/\ (delivered' = delivered + 1 /\ force_exit) =>
              /\ exited'
              /\ UNCHANGED <<processes, srvmutex, state, running, procmutex,
                             sent, thread, stack, pc, walks, cancelled>>
       /\ exited => UNCHANGED procvars]_vars

\* C5 witness: a second signal arrived during the shutdown and the program
\* was ended with a record still Running
ForcedExitTaken ==
    /\ exited
    /\ delivered >= 2
    /\ force_exit
    /\ \E p \in Procs : state[p] = "running"

\* the records in the directory
Registered == {processes[i] : i \in 1..Len(processes)}

\* thread or frame f leaves position at in this step
Leaves(f, at) == pc[f] = at /\ pc'[f] # at

\* C11: a tty_server_process_stop call on a record that is not Running
\* returns NULL at once: no signal is sent, and the state and the running
\* flag of every record stay as they are.
StopNoop ==
    [][\A f \in Threads :
          (Leaves(f, "stop_check") /\ state[arg[f]] # "running") =>
              /\ pc'[f] # "stop_kill"
              /\ stopret' = <<arg[f], "NULL">>
              /\ UNCHANGED <<sent, state, running>>]_vars

\* C11 witness: the latest call on a record returned NULL, the record being
\* Stopping after an earlier call that signalled it once
StopNoopTaken ==
    \E p \in Procs :
        /\ stopret = <<p, "NULL">>
        /\ state[p] = "stopping"
        /\ Len(sent[p]) = 1

\* C12: every signal tty_server_process_stop has sent is the configured
\* termination signal server->sig_code.
ConfiguredSignal ==
    \A p \in Procs : \A i \in 1..Len(sent[p]) : sent[p][i] = sig_code

\* a walk of sig_handler is in progress: a handler frame holds server->mutex
Walking == srvmutex \in Signals

\* C18: while the shutdown walk runs, every record whose worker has been
\* started is in the directory, so no Running process is out of its reach.
NoOrphan ==
    Walking => \A p \in Procs : thread[p] # "none" => p \in Registered

\* C19: every step that reads or writes process->state or process->running
\* (the test and the update of tty_server_process_stop, the read of
\* tty_server_process_state, the filter of process_getby_pid) is taken by
\* the holder of that record's mutex.
LockDiscipline ==
    [][\A f \in Threads :
          (\/ Leaves(f, "stop_check")
           \/ Leaves(f, "stop_set")
           \/ Leaves(f, "state_read")
           \/ Leaves(f, "pid_scan")) =>
              \A p \in Procs :
                  (p = arg[f] \/ (pc[f] = "pid_scan" /\ p \in Registered)) =>
                      procmutex[p] = f]_vars

\* C20: when main() has destroyed the server, every record still in the
\* directory has terminated and no worker is still running.
TeardownPrecondition ==
    pc["main"] = "done" =>
        \A p \in Procs :
            /\ p \in Registered => state[p] \in {"stopped", "crashed"}
            /\ thread[p] \in {"none", "done", "joined"}

\* ------------------------------------------------------------------------
\* Properties of the directory
\* ------------------------------------------------------------------------
\* this step allocates a record whose worker thread could not be created
FailedStart ==
    \E p \in Procs : state[p] = "none" /\ state'[p] = "created" /\ thread'[p] = "none"

\* C13: a record enters the directory once, and only with its worker
\* started; when pthread_create fails the directory stays as it is and the
\* caller gets NULL.
InsertionRule ==
    /\ [](\A i, j \in 1..Len(processes) :
             /\ thread[processes[i]] # "none"
             /\ i # j => processes[i] # processes[j])
    /\ [][/\ \A p \in Procs :
                (p \notin Registered /\ p \in Registered') =>
                    /\ thread[p] # "none"
                    /\ Len(processes') = Len(processes) + 1
          /\ FailedStart =>
                /\ processes' = processes
                /\ \E t \in Callers :
                      /\ pc[t] = "service" /\ pc'[t] = "returned"
                      /\ call'[t].fn = "tty_server_process_start"
                      /\ call'[t].ret = 0]_vars

\* C13 witness: a caller has been told that its start failed, the record of
\* the failed start is not in the directory and another record is
InsertionRuleTaken ==
    /\ \E t \in Callers :
          /\ pc[t] = "returned"
          /\ call[t].fn = "tty_server_process_start"
          /\ call[t].ret = 0
    /\ \E p \in Procs : state[p] = "created" /\ thread[p] = "none" /\ p \notin Registered
    /\ Registered # {}

\* C14: no two records in the directory have the same id, and the id of a
\* record stays as it is while the record is in the directory.
IdentityUniqueness ==
    /\ [](\A i, j \in 1..Len(processes) :
             i # j => id[processes[i]] # id[processes[j]])
    /\ [][\A p \in Procs :
             (p \in Registered /\ p \in Registered') => id'[p] = id[p]]_vars

\* C14 witness: two records are in the directory, one of them in storage
\* that an earlier record had, removed since
IdentityUniquenessTaken ==
    /\ Len(processes) >= 2
    /\ processes[1] < processes[2]

\* C15: whenever no list operation is under way the directory holds each
\* record inserted and not removed since, once; a removal takes out a
\* record that is in the directory, and only that one.
DirectorySafety ==
    /\ [](srvmutex = "free" =>
             /\ Registered = live
             /\ Len(processes) = Cardinality(live))
    /\ [][\A t \in Callers :
             Leaves(t, "rm_unlink") =>
                 /\ arg[t] \in Registered
                 /\ Registered' = Registered \ {arg[t]}
                 /\ Len(processes') = Len(processes) - 1]_vars

\* C15 witness: the first record has been removed and a later one is in the
\* directory, while one caller is inside a call and the other has been
\* answered
DirectorySafetyTaken ==
    /\ srvmutex = "free"
    /\ state[1] = "none"
    /\ Registered # {}
    /\ \E t, u \in Callers : pc[t] = "returned" /\ pc[u] \notin {"service", "returned"}

\* record p answers a process_getby_pid call for key
Matches(p, key, only) == pid[p] = key /\ (only = 1 => running[p])

\* C16: process_getby_id returns a record of the directory with the id
\* asked for when there is one and NULL otherwise; process_getby_pid
\* returns a record of the directory with the pid asked for, running when
\* only_running is set, when there is one and NULL otherwise; neither
\* changes the directory or a record.
LookupResult ==
    [][\A t \in Callers :
          /\ Leaves(t, "id_scan") =>
                /\ IF \E p \in Registered : id[p] = call[t].key
                   THEN call'[t].ret \in Registered /\ id[call'[t].ret] = call[t].key
                   ELSE call'[t].ret = 0
                /\ UNCHANGED <<processes, state, running, thread, sent, id, pid, owns>>
          /\ Leaves(t, "pid_scan") =>
                /\ IF \E p \in Registered : Matches(p, call[t].key, call[t].only)
                   THEN /\ call'[t].ret \in Registered
                        /\ Matches(call'[t].ret, call[t].key, call[t].only)
                   ELSE call'[t].ret = 0
                /\ UNCHANGED <<processes, state, running, thread, sent, id, pid, owns>>]_vars

\* C16 witness: one caller has found a record by its id, the other has been
\* answered NULL for the pid of a record that no longer runs
LookupResultTaken ==
    \E t, u \in Callers :
        /\ pc[t] = "returned" /\ call[t].fn = "process_getby_id" /\ call[t].ret # 0
        /\ pc[u] = "returned" /\ call[u].fn = "process_getby_pid"
        /\ call[u].only = 1 /\ call[u].ret = 0
        /\ \E p \in Registered : pid[p] = call[u].key /\ ~running[p]

\* C17: a record whose worker has not been joined owns its error slot, its
\* argv, its command and its logs.
RemovalOrdering ==
    \A p \in Procs :
        (state[p] # "none" /\ thread[p] # "joined") => owns[p] = Resources

\* ------------------------------------------------------------------------
\* Properties of concurrent calls on one record
\* ------------------------------------------------------------------------
\* C21: whatever tty_server_process_stop calls meet on a record, its process
\* is signalled once at most and the record is set to STOPPING once at most.
SingleSignal ==
    /\ [](\A p \in Procs : Len(sent[p]) <= 1)
    /\ [][\A p \in Procs :
             (\E f \in Threads : pc[f] = "stop_set" /\ arg[f] = p /\ pc'[f] # "stop_set") =>
                 state[p] # "stopping"]_vars

\* the resources a caller uses through a record it has looked up
Looked == {"argv", "command", "logs"}

\* C22: a record that process_getby_id or process_getby_pid returns owns its
\* logs, its command and its argv when it is found, and no record of the
\* directory has had them freed.
LookupIntact ==
    /\ [](\A p \in Registered : Looked \subseteq owns[p])
    /\ [][\A t \in Callers :
             (Leaves(t, "id_scan") \/ Leaves(t, "pid_scan")) =>
                 (call'[t].ret # 0 => Looked \subseteq owns[call'[t].ret])]_vars

\* ------------------------------------------------------------------------
\* Properties of the cursors of the circular buffer
\* ------------------------------------------------------------------------
\* the storage after the copies cs of data, made in their order
RECURSIVE Copied(_, _, _)
Copied(storage, cs, data) ==
    IF cs = <<>> THEN storage
    ELSE Copied(memcpy(storage, Head(cs).dst,
                       SubSeq(data, Head(cs).src, Head(cs).src + Head(cs).n - 1)),
                Tail(cs), data)

\* C23: the writer and the reader of a circular buffer of length C > 0 are
\* at an offset from 0 to C - 1 after every append, and every copy an append
\* makes stays inside the offsets 0 to C - 1 of the storage.
CursorBounds ==
    /\ [](/\ circular.writer \in 0..(circular.length - 1)
          /\ circular.reader \in 0..(circular.length - 1))
    /\ [][appends' # appends =>
             LET cs == circular_append_copies(circular, chunk') IN
             /\ \A k \in 1..Len(cs) :
                   /\ cs[k].n >= 0
                   /\ cs[k].dst >= 0
                   /\ cs[k].dst + cs[k].n <= circular.length
                   /\ cs[k].src >= 1
                   /\ cs[k].src + cs[k].n - 1 <= Len(chunk')
             /\ circular'.buffer = Copied(circular.buffer, cs, chunk')]_vars

\* C23 witness: the latest append did not fit before the end of the storage
\* and went on at its beginning
CursorBoundsTaken ==
    /\ chunk # <<>>
    /\ Len(chunk) < circular.length
    /\ circular.writer < Len(chunk)
    /\ circular.writer > 0

====
